---- MODULE Spec2Model ----
(***************************************************************************)
(* Request admission, credit ledger and streamed chat turns of the vion1   *)
(* backend (backend/app): rate_limiter.py, supabase_client.py, chat.py and  *)
(* the parts of smart_router.py a chat turn runs through.                   *)
(*                                                                         *)
(* The specifications share the variables and the operators:               *)
(*   SpecRate      check_rate_limit alone, with the clock advancing;        *)
(*   Spec          MaxTurns chat turns in full detail (admission, routing,  *)
(*                 credit check, streaming, deduction), a purchase webhook; *)
(*   SpecBurst     MaxBurst chat requests of one user arriving while the    *)
(*                 upstream provider has not answered yet;                  *)
(*   SpecDrift     MaxDrift requests of one user over two minutes;          *)
(*   SpecDenied    MaxDrift requests of one user meeting every rejection;   *)
(*   SpecPool      the credential pool, its callers and cooldown tasks;     *)
(*   SpecRetry     one completion call with retries, rotation, fallback;    *)
(*   SpecStream    one chat turn streamed character by character;           *)
(*   SpecRoute     one get_model_for_message call and its classification;   *)
(*   SpecHeuristic repeated _fast_classify_heuristic calls.                 *)
(***************************************************************************)
EXTENDS Integers, Sequences, FiniteSets, TLC

\* ------------------------------------------------------------------ bounds
\* The clock stops at MaxTime; it advances in steps of TickSeconds.
MaxTime == 60
TickSeconds == 30
\* Chat requests of Spec and of SpecBurst; per run: upstream deltas, faults
\* (upstream errors, store failures, client disconnects), purchase webhooks.
MaxTurns == 2
MaxBurst == 6
\* Chat requests of SpecDrift.
MaxDrift == 7
\* SpecStream: the deltas of the stream, and the length of its long delta.
MaxStreamDeltas == 3
LongDeltaLen == 52
MaxDeltas == 2
MaxFaults == 1
MaxWebhooks == 1
\* The credential pool: its keys, and per run the get_key calls and the error
\* reports of callers other than the completion call.
MaxKeys == 2
MaxGetKeys == 3
MaxReports == 2
\* The question marks of a message.
MaxQuestions == 2

\* ------------------------------------------------------- program constants
MAX_REQUESTS_PER_MINUTE == 30
MAX_CONCURRENT_REQUESTS == 5
RATE_LIMIT_WINDOW == 60
SEMAPHORE_PERMITS == 5
simple_model_cost == 1
complex_model_cost == 20
image_cost == 10
STARTER_CREDITS == 1000
SLOW_CHARS == 50
MEDIUM_CHARS == 200
COOLDOWN == 60
MAX_ATTEMPTS == 3
LONG_LENGTH == 200
MULTI_QUESTION_LENGTH == 100
TECHNICAL_TERMS == 3
GREETING_LENGTH == 20
MEDIUM_LENGTH == 80
SHORT_LENGTH == 50
DEFAULT_COMPLEX_LENGTH == 150

Users == {"u1", "u2"}
Turns == 1..MaxTurns
BurstTurns == 1..MaxBurst
DriftTurns == 1..MaxDrift
AllTurns == Turns \cup BurstTurns \cup DriftTurns

VARIABLES
    now,                    \* time.time(), in seconds
    user_request_counts,    \* rate_limiter.user_request_counts: user -> list of stamps
    user_active_requests,   \* rate_limiter.user_active_requests: user -> counter
    user_request_semaphores,\* rate_limiter.user_request_semaphores: user -> free permits
    credit_balance,         \* profiles.credit_balance: user -> balance
    turn,                   \* the chat requests: turn id -> its handler's state
    webhook,                \* the purchase webhook's add_credits call
    budget,                 \* environment: the deltas and faults it may still produce
    allowed_log,            \* observer: stamps of the allowed calls younger than the window
    last_call,              \* observer: the last check_rate_limit call of each user
    key_stats,              \* api_key_pool.key_stats: key -> its counters and is_active
    current_index,          \* api_key_pool.current_index
    timers,                 \* the pending _reenable_key_after_delay tasks
    completion,             \* one _create_chat_completion_with_retry call and its caller
    last_get,               \* observer: the last get_key call
    last_mark,              \* observer: the last mark_key_error call
    routing,                \* one get_model_for_message call
    probe,                  \* observer: the first _fast_classify_heuristic call
    last_heuristic          \* observer: the last _fast_classify_heuristic call

vars == <<now, user_request_counts, user_active_requests, user_request_semaphores,
          credit_balance, turn, webhook, budget, allowed_log, last_call,
          key_stats, current_index, timers, completion, last_get, last_mark,
          routing, probe, last_heuristic>>

router_vars == <<routing, probe, last_heuristic>>

pool_vars == <<key_stats, current_index, timers, completion, last_get, last_mark>>

chat_vars == <<user_active_requests, user_request_semaphores, credit_balance, turn, webhook,
               budget, pool_vars, router_vars>>

\* The environment spends a fault, a delta, or nothing.
Fault == budget.faults > 0 /\ budget' = [budget EXCEPT !.faults = @ - 1]
Delta == budget.deltas > 0 /\ budget' = [budget EXCEPT !.deltas = @ - 1]

\* --------------------------------------------------------- rate_limiter.py
\* The list comprehension of check_rate_limit: the stamps still inside the window.
CleanOld(stamps, t) == SelectSeq(stamps, LAMBDA req_time : t - req_time < RATE_LIMIT_WINDOW)

RateLimitReached_off_by_one(current_count) == current_count > MAX_REQUESTS_PER_MINUTE
\* `if current_count >= MAX_REQUESTS_PER_MINUTE`
RateLimitReached(current_count) == current_count >= MAX_REQUESTS_PER_MINUTE

\* The result of check_rate_limit(u) called now.
RateAllowed(u) == ~RateLimitReached(Len(CleanOld(user_request_counts[u], now)))

check_rate_limit_stamps_denied(u) ==
    /\ user_request_counts' =
          [user_request_counts EXCEPT ![u] = Append(CleanOld(@, now), now)]
    /\ last_call' = [last_call EXCEPT ![u] =
          [made |-> TRUE, in_window |-> Len(allowed_log[u]),
           allowed |-> Len(CleanOld(user_request_counts[u], now)) < MAX_REQUESTS_PER_MINUTE]]
    /\ allowed_log' = [allowed_log EXCEPT ![u] =
          IF Len(CleanOld(user_request_counts[u], now)) < MAX_REQUESTS_PER_MINUTE
          THEN Append(@, now) ELSE @]
\* check_rate_limit(u): prune, compare, append when allowed.  The observer
\* counts, on its own, the allowed calls that lie inside the window.
check_rate_limit(u) ==
    LET cleaned == CleanOld(user_request_counts[u], now)
    IN  /\ user_request_counts' =
              [user_request_counts EXCEPT ![u] =
                  IF RateAllowed(u) THEN Append(cleaned, now) ELSE cleaned]
        /\ last_call' = [last_call EXCEPT ![u] =
              [made |-> TRUE, in_window |-> Len(allowed_log[u]), allowed |-> RateAllowed(u)]]
        /\ allowed_log' = [allowed_log EXCEPT ![u] =
              IF RateAllowed(u) THEN Append(@, now) ELSE @]

\* asyncio.Semaphore.locked()
SemLocked(u) == user_request_semaphores[u] = 0

\* acquire_request_slot's fail-fast test.
SlotDenied(u) == SemLocked(u) /\ user_active_requests[u] >= MAX_CONCURRENT_REQUESTS

ReleasedActive_unfloored(u) == [user_active_requests EXCEPT ![u] = @ - 1]
ReleasedSemaphores_kept(u) == user_request_semaphores
\* release_request_slot(u): the counter, floored at 0, and semaphore.release().
ReleasedActive(u) ==
    [user_active_requests EXCEPT ![u] = IF @ - 1 > 0 THEN @ - 1 ELSE 0]
ReleasedSemaphores(u) == [user_request_semaphores EXCEPT ![u] = @ + 1]

\* A caller of check_rate_limit alone.
RateCall(u) ==
    /\ check_rate_limit(u)
    /\ UNCHANGED <<now, chat_vars>>

\* Time passes; the observer forgets the allowed calls that left the window.
Tick ==
    /\ now + TickSeconds <= MaxTime
    /\ now' = now + TickSeconds
    /\ allowed_log' = [u \in Users |->
          SelectSeq(allowed_log[u], LAMBDA s : now' - s < RATE_LIMIT_WINDOW)]
    /\ UNCHANGED <<user_request_counts, last_call, chat_vars>>

\* ------------------------------------------------------------ environment
\* What get_model_for_message returns: the model and its cost; clf counts the
\* upstream classification calls classify_message made on the way.
Routes ==
    { [model |-> "image",   cost |-> image_cost,         clf |-> 0] }
    \cup { [model |-> "simple",  cost |-> simple_model_cost,  clf |-> n] : n \in {0, 1} }
    \cup { [model |-> "complex", cost |-> complex_model_cost, clf |-> n] : n \in {0, 1} }

\* The delta.content values the upstream stream may deliver (lists of characters).
Deltas == { <<"a">>, <<"b", "c", "d">> }

\* The transient errors of the upstream provider: of a completion request, and
\* of a stream that has begun.
UpstreamErrors == {"RateLimitError", "APITimeoutError", "APIError"}
StreamErrors == {"APIError"}

\* How _create_chat_completion_with_retry and the fallback request ended.
CreateOutcomes ==
    { [first |-> f, fallback |-> "none"] : f \in {"ok"} \cup UpstreamErrors }
    \cup { [first |-> "ModelNotFound", fallback |-> b] : b \in {"ok", "fail"} }

\* ------------------------------------------------------ smart_router.py
\* generate_response_stream's handler: the message it yields for an exception.
ErrorMessage(exc) ==
    IF exc = "RateLimitError" THEN <<"OPENAI_RATE_LIMIT">>
    ELSE IF exc = "APITimeoutError" THEN <<"OPENAI_TIMEOUT">>
    ELSE <<"OPENAI_API_ERROR">>

CaughtByExceptException_any(exc) == TRUE
\* `except Exception`: asyncio.CancelledError and GeneratorExit derive from
\* BaseException and pass through it.
CaughtByExceptException(exc) == exc \notin {"CancelledError", "GeneratorExit"}

\* The slice size generate_response_stream picks when a delta arrives.
ChunkSize(total_chars_streamed) ==
    IF total_chars_streamed < SLOW_CHARS THEN 2
    ELSE IF total_chars_streamed < MEDIUM_CHARS THEN 3
    ELSE 4

\* --------------------------------------------------------------- chat.py
IdleTurn ==
    [pc |-> "idle", user |-> "none", status |-> 0, code |-> "",
     acquired |-> FALSE, releases |-> 0,
     balance_reads |-> 0, credits |-> 0, model |-> "", cost |-> 0, clf_calls |-> 0,
     gen_calls |-> 0, gen_ok |-> FALSE, upstream_failed |-> FALSE, raw |-> FALSE,
     received |-> <<>>, buffer |-> <<>>, total_chars_streamed |-> 0, chunk_size |-> 0,
     full_response |-> <<>>, events |-> <<>>, saved |-> <<>>, saved_set |-> FALSE,
     deduct_calls |-> 0, deducted |-> FALSE, deduct_failed |-> FALSE, current_balance |-> 0,
     late |-> FALSE, cancel_at |-> -1, cancel_early |-> FALSE, audit_failed |-> FALSE]

Event(type, content) == [type |-> type, content |-> content]

AppendResponse_prepend(full_response, chunk) == chunk \o full_response
\* `full_response += chunk`
AppendResponse(full_response, chunk) == full_response \o chunk

\* One pass of generate()'s loop body: the chunk joins full_response and goes
\* out as a content event.
EmitContent(rec, chunk) ==
    [rec EXCEPT !.full_response = AppendResponse(@, chunk),
                !.events = Append(@, Event("content", chunk)),
                !.late = @ \/ rec.releases > 0]

InsufficientCredits_never(credits, cost) == credits + cost < cost
\* `if credits < cost`
InsufficientCredits(credits, cost) == credits < cost

Rejected_continues(rec, status, code) ==
    [rec EXCEPT !.pc = "gather", !.status = status, !.code = code, !.releases = @ + 1]
\* The handler leaves by raising HTTPException(status); the finally block has run.
Rejected(rec, status, code) ==
    [rec EXCEPT !.pc = "rejected", !.status = status, !.code = code, !.releases = @ + 1]

\* chat(), lines 95-104: check_rate_limit, and the 429 when it denies.
ChatRateCheck(t, u) ==
    /\ turn[t].pc = "idle"
    /\ t > 1 => turn[t - 1].pc # "idle"
    /\ check_rate_limit(u)
    /\ IF RateAllowed(u)
       THEN /\ turn' = [turn EXCEPT ![t] = [@ EXCEPT !.pc = "acquire", !.user = u]]
            /\ UNCHANGED <<user_active_requests, user_request_semaphores>>
       ELSE /\ turn' = [turn EXCEPT ![t] =
                  Rejected([@ EXCEPT !.user = u], 429, "RATE_LIMIT_EXCEEDED")]
            /\ user_active_requests' = ReleasedActive(u)
            /\ user_request_semaphores' = ReleasedSemaphores(u)
    /\ UNCHANGED <<now, credit_balance, webhook, budget, pool_vars, router_vars>>

\* chat(), lines 106-115: acquire_request_slot, and the 429 when it denies.
\* `await semaphore.acquire()` goes on only while a permit is free.
ChatAcquire(t) ==
    /\ turn[t].pc = "acquire"
    /\ LET u == turn[t].user
       IN  IF SlotDenied(u)
           THEN /\ turn' = [turn EXCEPT ![t] = Rejected(@, 429, "CONCURRENT_REQUESTS_EXCEEDED")]
                /\ user_active_requests' = ReleasedActive(u)
                /\ user_request_semaphores' = ReleasedSemaphores(u)
           ELSE /\ user_request_semaphores[u] > 0
                /\ user_request_semaphores' = [user_request_semaphores EXCEPT ![u] = @ - 1]
                /\ user_active_requests' = [user_active_requests EXCEPT ![u] = @ + 1]
                /\ turn' = [turn EXCEPT ![t] = [@ EXCEPT !.pc = "gather", !.acquired = TRUE]]
    /\ UNCHANGED <<now, user_request_counts, allowed_log, last_call, credit_balance, webhook,
                   budget, pool_vars, router_vars>>

\* credits_task of the gather: get_user_credits reads the balance.
GatherCredits(t) ==
    /\ turn[t].pc = "gather"
    /\ turn' = [turn EXCEPT ![t] =
          [@ EXCEPT !.pc = "routing", !.balance_reads = @ + 1,
                    !.credits = credit_balance[turn[t].user]]]
    /\ UNCHANGED <<now, user_request_counts, allowed_log, last_call, user_active_requests,
                   user_request_semaphores, credit_balance, webhook, budget, pool_vars, router_vars>>

\* A task of the gather raises (a store read fails): 500, then the finally block.
GatherFail(t) ==
    /\ turn[t].pc = "gather"
    /\ Fault
    /\ turn' = [turn EXCEPT ![t] = Rejected(@, 500, "INTERNAL_SERVER_ERROR")]
    /\ user_active_requests' = ReleasedActive(turn[t].user)
    /\ user_request_semaphores' = ReleasedSemaphores(turn[t].user)
    /\ UNCHANGED <<now, user_request_counts, allowed_log, last_call, credit_balance, webhook, pool_vars, router_vars>>

\* chat(), lines 126-152 and 154-444: the gather returns with the route r; 402
\* when the balance read is too low, else the StreamingResponse is returned.
\* Either way the finally block releases the slot as chat() is left.
ChatRouted(t, r) ==
    /\ turn[t].pc = "routing"
    /\ LET u == turn[t].user
           rec == [turn[t] EXCEPT !.model = r.model, !.cost = r.cost, !.clf_calls = r.clf]
       IN  /\ turn' = [turn EXCEPT ![t] =
                  IF InsufficientCredits(rec.credits, rec.cost)
                  THEN Rejected(rec, 402, "INSUFFICIENT_CREDITS")
                  ELSE [rec EXCEPT !.pc = IF r.model = "image" THEN "img_start" ELSE "stream_start",
                                   !.status = 200, !.releases = @ + 1]]
           /\ user_active_requests' = ReleasedActive(u)
           /\ user_request_semaphores' = ReleasedSemaphores(u)
    /\ UNCHANGED <<now, user_request_counts, allowed_log, last_call, credit_balance, webhook,
                   budget, pool_vars, router_vars>>

streamless == <<now, user_request_counts, allowed_log, last_call, user_active_requests,
                user_request_semaphores, credit_balance, webhook, pool_vars, router_vars>>

\* generate() starts: generate_response_stream sends the completion request
\* (_create_chat_completion_with_retry, and the gpt-4o fallback when the model
\* is rejected as not found).  A failure ends the inner generator with the
\* error message yielded as a chunk.
CreateCompletion(t, o) ==
    /\ turn[t].pc = "stream_start"
    /\ IF o.first = "ok" THEN UNCHANGED budget ELSE Fault
    /\ LET rec == [turn[t] EXCEPT !.gen_calls = IF o.first = "ModelNotFound" THEN 2 ELSE 1,
                                  !.late = @ \/ turn[t].releases > 0]
       IN  turn' = [turn EXCEPT ![t] =
              IF o.first = "ok"
              THEN [rec EXCEPT !.pc = "streaming"]
              ELSE IF o.first = "ModelNotFound" /\ o.fallback = "ok"
              THEN [rec EXCEPT !.pc = "streaming", !.raw = TRUE]
              ELSE IF o.first = "ModelNotFound"
              THEN [EmitContent(rec, ErrorMessage("APIError"))
                       EXCEPT !.pc = "deduct", !.upstream_failed = TRUE]
              ELSE [EmitContent(rec, ErrorMessage(o.first))
                       EXCEPT !.pc = "deduct", !.upstream_failed = TRUE]]
    /\ UNCHANGED streamless

\* The upstream stream delivers a delta.  Character streaming buffers it and
\* fixes the slice size for this delta; the fallback stream yields it as it is.
StreamDelta(t, d) ==
    /\ turn[t].pc = "streaming"
    /\ Delta
    /\ LET rec == turn[t]
           size == ChunkSize(rec.total_chars_streamed)
       IN  turn' = [turn EXCEPT ![t] =
              IF rec.raw
              THEN EmitContent([rec EXCEPT !.received = @ \o d], d)
              ELSE [rec EXCEPT !.received = @ \o d,
                               !.buffer = @ \o d, !.chunk_size = size,
                               !.pc = IF Len(rec.buffer \o d) >= size
                                      THEN "emitting" ELSE "streaming"]]
    /\ UNCHANGED streamless

RestOfBuffer_skips(buffer, chunk_size) == SubSeq(buffer, chunk_size + 2, Len(buffer))
\* `buffer = buffer[chunk_size:]`
RestOfBuffer(buffer, chunk_size) == SubSeq(buffer, chunk_size + 1, Len(buffer))

\* One pass of `while len(buffer) >= chunk_size`.
EmitChunk(t) ==
    /\ turn[t].pc = "emitting"
    /\ UNCHANGED budget
    /\ LET rec == turn[t]
           chunk_to_send == SubSeq(rec.buffer, 1, rec.chunk_size)
           rest == RestOfBuffer(rec.buffer, rec.chunk_size)
       IN  turn' = [turn EXCEPT ![t] =
              [EmitContent(rec, chunk_to_send)
                  EXCEPT !.buffer = rest,
                         !.total_chars_streamed = @ + Len(chunk_to_send),
                         !.pc = IF Len(rest) >= rec.chunk_size THEN "emitting" ELSE "streaming"]]
    /\ UNCHANGED streamless

\* The upstream stream ends: `if buffer: yield buffer`.
StreamEnd(t) ==
    /\ turn[t].pc = "streaming"
    /\ UNCHANGED budget
    /\ LET rec == [turn[t] EXCEPT !.pc = "deduct", !.gen_ok = TRUE, !.buffer = <<>>]
       IN  turn' = [turn EXCEPT ![t] =
              IF turn[t].buffer # <<>> THEN EmitContent(rec, turn[t].buffer) ELSE rec]
    /\ UNCHANGED streamless

\* The upstream stream raises part-way: the handler of generate_response_stream
\* (of its fallback branch, when that is the stream) yields the error message.
StreamError(t, exc) ==
    /\ turn[t].pc = "streaming"
    /\ Fault
    /\ CaughtByExceptException(exc)
    /\ turn' = [turn EXCEPT ![t] =
          [EmitContent(turn[t], IF turn[t].raw THEN ErrorMessage("APIError") ELSE ErrorMessage(exc))
              EXCEPT !.pc = "deduct", !.upstream_failed = TRUE, !.buffer = <<>>]]
    /\ UNCHANGED streamless

\* The image branch's generate(): the status event, then client.images.generate
\* and, when it returned an image, save_message with the image's markdown.
ImageGenerate(t, ok) ==
    /\ turn[t].pc = "img_start"
    /\ IF ok THEN UNCHANGED budget ELSE Fault
    /\ LET rec == [turn[t] EXCEPT !.events = Append(@, Event("status", <<>>)),
                                  !.gen_calls = 1,
                                  !.late = @ \/ turn[t].releases > 0]
       IN  turn' = [turn EXCEPT ![t] =
              IF ok
              THEN [rec EXCEPT !.pc = "img_deduct", !.gen_ok = TRUE,
                               !.saved = <<"image_content">>, !.saved_set = TRUE]
              ELSE [rec EXCEPT !.pc = "failed", !.upstream_failed = TRUE,
                               !.events = Append(@, Event("error", <<"IMAGE_GENERATION_ERROR">>))]]
    /\ UNCHANGED streamless

\* The client disconnects while the turn is suspended: CancelledError (or
\* GeneratorExit) is raised in the generator.
Cancel(t) ==
    /\ turn[t].pc \in {"stream_start", "streaming", "emitting", "deduct", "img_start"}
    /\ Fault
    /\ LET rec == [turn[t] EXCEPT !.cancel_at = Len(turn[t].events),
                                  !.cancel_early = turn[t].pc # "deduct"]
       IN  turn' = [turn EXCEPT ![t] =
              IF CaughtByExceptException("CancelledError") /\ rec.model # "image"
              THEN [EmitContent(rec, ErrorMessage("Exception")) EXCEPT !.pc = "deduct"]
              ELSE [rec EXCEPT !.pc = "cancelled"]]
    /\ UNCHANGED streamless

\* ------------------------------------------------------ supabase_client.py
DeductAllowed_unchecked(current_balance, amount) == TRUE
\* deduct_credits: `if current_balance < amount: return False`
DeductAllowed(current_balance, amount) == ~(current_balance < amount)

\* What generate() does when deduct_credits returned False: the text branch
\* raises and its handler sends an error event; the image branch only logs
\* and goes on to the image event and the done marker.
DeductFailed(rec) ==
    IF rec.model = "image"
    THEN [rec EXCEPT !.pc = "done", !.deduct_failed = TRUE, !.current_balance = 0,
                     !.events = @ \o <<Event("image", <<>>), Event("done", <<>>)>>]
    ELSE [rec EXCEPT !.pc = "failed", !.deduct_failed = TRUE, !.current_balance = 0,
                     !.events = Append(@, Event("error", <<"INTERNAL_SERVER_ERROR">>))]

\* What generate() does after deduct_credits returned True: save_message with
\* full_response, then the done marker (the image branch: image event, done).
DeductSucceeded(rec) ==
    IF rec.model = "image"
    THEN [rec EXCEPT !.pc = "done", !.deducted = TRUE, !.current_balance = 0,
                     !.events = @ \o <<Event("image", <<>>), Event("done", <<>>)>>]
    ELSE [rec EXCEPT !.pc = "done", !.deducted = TRUE, !.current_balance = 0,
                     !.saved = rec.full_response, !.saved_set = TRUE,
                     !.events = Append(@, Event("done", <<>>))]

\* deduct_credits, lines 36-41: read the balance, refuse when it is too low.
DeductRead(t) ==
    /\ turn[t].pc \in {"deduct", "img_deduct"}
    /\ UNCHANGED budget
    /\ LET rec == [turn[t] EXCEPT !.deduct_calls = @ + 1,
                                  !.current_balance = credit_balance[turn[t].user]]
       IN  turn' = [turn EXCEPT ![t] =
              IF DeductAllowed(rec.current_balance, rec.cost)
              THEN [rec EXCEPT !.pc = "deduct_write"]
              ELSE DeductFailed(rec)]
    /\ UNCHANGED streamless

\* How the insert into transactions ended: a row, an error result, an exception.
AuditOutcomes == {"ok", "error", "raised"}

DeductReturns_audited(update_ok, audit) == update_ok /\ audit = "ok"
\* deduct_credits, lines 49-74: False when the update failed, else True
\* whatever became of the audit insert.
DeductReturns(update_ok, audit) == update_ok

\* deduct_credits, lines 43-77: write current_balance - amount; the update may
\* fail (error, or no row returned), and then nothing is written and no audit
\* row is tried.  After a successful update the audit insert may fail.
DeductWrite(t, ok, audit) ==
    /\ turn[t].pc = "deduct_write"
    /\ ~ok => audit = "ok"
    /\ IF ok /\ audit = "ok" THEN UNCHANGED budget ELSE Fault
    /\ credit_balance' = IF ok
          THEN [credit_balance EXCEPT ![turn[t].user] = turn[t].current_balance - turn[t].cost]
          ELSE credit_balance
    /\ LET rec == [turn[t] EXCEPT !.audit_failed = audit # "ok"]
       IN  turn' = [turn EXCEPT ![t] =
              IF DeductReturns(ok, audit) THEN DeductSucceeded(rec) ELSE DeductFailed(rec)]
    /\ UNCHANGED <<now, user_request_counts, allowed_log, last_call, user_active_requests,
                   user_request_semaphores, webhook, pool_vars, router_vars>>

\* add_credits (called by the purchase webhook), lines 82-83: read the balance.
AddCreditsRead(u) ==
    /\ webhook.pc = "idle"
    /\ webhook.calls < MaxWebhooks
    /\ webhook' = [webhook EXCEPT !.pc = "write", !.user = u,
                                  !.current_balance = credit_balance[u]]
    /\ UNCHANGED <<now, user_request_counts, allowed_log, last_call, user_active_requests,
                   user_request_semaphores, credit_balance, turn, budget, pool_vars, router_vars>>

\* add_credits, lines 85-89: write current_balance + amount.
AddCreditsWrite ==
    /\ webhook.pc = "write"
    /\ credit_balance' = [credit_balance EXCEPT ![webhook.user] =
          webhook.current_balance + STARTER_CREDITS]
    /\ webhook' = [webhook EXCEPT !.pc = "idle", !.calls = @ + 1, !.user = "none",
                                  !.current_balance = 0]
    /\ UNCHANGED <<now, user_request_counts, allowed_log, last_call, user_active_requests,
                   user_request_semaphores, turn, budget, pool_vars, router_vars>>

\* ------------------------------------------------------ api_key_manager.py
\* api_key_pool.keys, in pool order; the first is settings.openai_api_key, the
\* key of _primary_client as well.
Keys == 1..MaxKeys
keys == [i \in 1..MaxKeys |-> i]
PrimaryKey == keys[1]
NoKey == 0

\* The exceptions a caller may report: openai's RateLimitError, an APIError
\* whose text holds "429", any other APIError, APITimeoutError, anything else.
ErrorKinds == {"RateLimitError", "APIError429", "APIError", "APITimeoutError", "Exception"}

IsRateLimitClass_always(error) == TRUE
\* mark_key_error's two deactivating branches.
IsRateLimitClass(error) == error \in {"RateLimitError", "APIError429"}

NewKeyStats ==
    [usage_count |-> 0, error_count |-> 0, rate_limit_count |-> 0, is_active |-> TRUE]

ActiveKeys_unfiltered(stats) == keys
\* `[key for key in self.keys if self.key_stats[key]["is_active"]]`
ActiveKeys(stats) == SelectSeq(keys, LAMBDA key : stats[key].is_active)

ResetAll_skipped(stats) == stats
\* `for key in self.keys: self.key_stats[key]["is_active"] = True`
ResetAll(stats) == [key \in Keys |-> [stats[key] EXCEPT !.is_active = TRUE]]

\* get_key, lines 69-74: the statistics and the candidate list after the
\* all-inactive reset.
HealedStats(stats) == IF ActiveKeys(stats) = <<>> THEN ResetAll(stats) ELSE stats
Candidates(stats) == IF ActiveKeys(stats) = <<>> THEN keys ELSE ActiveKeys(stats)

PickedKey_first(stats, index) == Candidates(stats)[1]
\* get_key, line 78: the round-robin selection.
PickedKey(stats, index) == Candidates(stats)[(index % Len(Candidates(stats))) + 1]

\* get_key(): returns PickedKey(key_stats, current_index).
get_key ==
    LET key == PickedKey(key_stats, current_index)
        stats == [HealedStats(key_stats) EXCEPT ![key].usage_count = @ + 1]
    IN  /\ key_stats' = stats
        /\ current_index' = current_index + 1
        /\ last_get' = [made |-> TRUE, key |-> key,
                        active_before |-> {k \in Keys : key_stats[k].is_active},
                        active_after |-> {k \in Keys : stats[k].is_active}]

ScheduleReenable_dropped(tasks, key, t) == tasks
\* `asyncio.create_task(self._reenable_key_after_delay(key, 60))`
ScheduleReenable(tasks, key, t) == tasks \cup {[key |-> key, due |-> t + COOLDOWN]}

\* mark_key_error(key, error), returning to its caller.
mark_key_error(key, error) ==
    LET stats == [key_stats EXCEPT ![key] =
                    [@ EXCEPT !.error_count = @ + 1,
                              !.rate_limit_count = IF IsRateLimitClass(error) THEN @ + 1 ELSE @,
                              !.is_active = IF IsRateLimitClass(error) THEN FALSE ELSE @]]
    IN  /\ key_stats' = stats
        /\ timers' = IF IsRateLimitClass(error)
                     THEN ScheduleReenable(timers, key, now) ELSE timers
        /\ last_mark' = [made |-> TRUE, key |-> key, error |-> error,
                         seq |-> last_mark.seq + 1,
                         active_at_return |-> stats[key].is_active]

\* The reports made so far.
Reports == last_mark.seq

\* A caller outside the completion call (classify_message's retry) takes a key.
PoolGetKey ==
    /\ current_index < MaxGetKeys
    /\ get_key
    /\ UNCHANGED <<now, user_request_counts, allowed_log, last_call, user_active_requests,
                   user_request_semaphores, credit_balance, turn, webhook, budget,
                   timers, completion, last_mark, router_vars>>

\* handle_openai_error(error, key_used) of such a caller, for a key it was given.
PoolMarkKeyError(key, error) ==
    /\ Reports < MaxReports
    /\ key_stats[key].usage_count > 0
    /\ mark_key_error(key, error)
    /\ UNCHANGED <<now, user_request_counts, allowed_log, last_call, user_active_requests,
                   user_request_semaphores, credit_balance, turn, webhook, budget,
                   current_index, completion, last_get, router_vars>>

\* _reenable_key_after_delay: asyncio.sleep(delay) is over (time has reached
\* the task's due instant, if it had not passed it), the key is active again.
ReenableKey(task) ==
    /\ task \in timers
    /\ now' = IF now < task.due THEN task.due ELSE now
    /\ key_stats' = [key_stats EXCEPT ![task.key].is_active = TRUE]
    /\ timers' = timers \ {task}
    /\ allowed_log' = [u \in Users |->
          SelectSeq(allowed_log[u], LAMBDA s : now' - s < RATE_LIMIT_WINDOW)]
    /\ UNCHANGED <<user_request_counts, last_call, user_active_requests,
                   user_request_semaphores, credit_balance, turn, webhook, budget,
                   current_index, completion, last_get, last_mark, router_vars>>

\* Some pending cooldown task runs to its end.
ReenableDue == \E task \in timers : ReenableKey(task)

\* ------------------------------- smart_router.py: the completion request
\* How one upstream request may end: a stream, a transient error, the
\* provider rejecting the model (NotFoundError, an APIError whose text says
\* the model was not found), or an exception that is no APIError.
RequestOutcomes == {"ok"} \cup UpstreamErrors \cup {"ModelNotFound", "Exception"}

IsAPIError_any(o) == o # "ok"
\* `except (RateLimitError, APIError)` and tenacity's retry_if_exception_type:
\* every openai error, RateLimitError, APITimeoutError and NotFoundError
\* included, is an APIError.
IsAPIError(o) == o \in UpstreamErrors \cup {"ModelNotFound"}

\* The exception as mark_key_error sees it.
MarkedAs(o) == IF o = "ModelNotFound" THEN "APIError" ELSE o

\* generate_response_stream's handler: the fallback for a model-not-found
\* text, else the error message is yielded and the generator ends.
Surfaced(o) == IF o = "ModelNotFound" THEN "fallback" ELSE "failed"

\* tenacity: another attempt after an APIError while attempts are left.
Retried(o, attempt) == IsAPIError(o) /\ attempt < MAX_ATTEMPTS

untouched_by_completion ==
    <<user_request_counts, allowed_log, last_call, user_active_requests,
      user_request_semaphores, credit_balance, turn, webhook, budget, router_vars>>

\* generate_response_stream calls _create_chat_completion_with_retry.
StartCompletion ==
    /\ completion.pc = "idle"
    /\ completion' = [completion EXCEPT !.pc = "primary", !.attempt = 1]
    /\ UNCHANGED <<now, untouched_by_completion, key_stats, current_index, timers,
                   last_get, last_mark>>

\* An attempt's first request, with _primary_client, and how it ends.
PrimaryRequest(o) ==
    /\ completion.pc = "primary"
    /\ completion' = [completion EXCEPT
          !.requests = @ + 1,
          !.key_used = NoKey,
          !.failed_keys = IF o \in UpstreamErrors THEN Append(@, PrimaryKey) ELSE @,
          !.pc = IF o = "ok" THEN "ok"
                 ELSE IF IsAPIError(o) THEN "rotate"
                 ELSE Surfaced(o)]
    /\ UNCHANGED <<now, untouched_by_completion, key_stats, current_index, timers,
                   last_get, last_mark>>

\* The handler of the first request's error: get_openai_client_with_rotation,
\* and the second request is sent with the key it returned.
RotatedRequest ==
    /\ completion.pc = "rotate"
    /\ get_key
    /\ completion' = [completion EXCEPT
          !.requests = @ + 1,
          !.key_used = PickedKey(key_stats, current_index),
          !.pc = "rotated"]
    /\ UNCHANGED <<now, untouched_by_completion, timers, last_mark>>

\* The second request succeeds.
RotatedOk ==
    /\ completion.pc = "rotated"
    /\ completion' = [completion EXCEPT !.pc = "ok"]
    /\ UNCHANGED <<now, untouched_by_completion, key_stats, current_index, timers,
                   last_get, last_mark>>

\* The second request fails: handle_openai_error(retry_error, key_used), the
\* error is raised, and tenacity starts the next attempt or gives up.
RotatedError(o) ==
    /\ completion.pc = "rotated"
    /\ o # "ok"
    /\ mark_key_error(completion.key_used, MarkedAs(o))
    /\ completion' = [completion EXCEPT
          !.failed_keys = IF o \in UpstreamErrors THEN Append(@, completion.key_used) ELSE @,
          !.reported_keys = IF o \in UpstreamErrors THEN Append(@, completion.key_used) ELSE @,
          !.attempt = IF Retried(o, completion.attempt) THEN @ + 1 ELSE @,
          !.pc = IF Retried(o, completion.attempt) THEN "primary" ELSE Surfaced(o)]
    /\ UNCHANGED <<now, untouched_by_completion, current_index, last_get>>

\* The one fallback request, gpt-4o with _primary_client.
FallbackRequest(ok) ==
    /\ completion.pc = "fallback"
    /\ completion' = [completion EXCEPT
          !.fallback_requests = @ + 1,
          !.pc = IF ok THEN "ok" ELSE "failed"]
    /\ UNCHANGED <<now, untouched_by_completion, key_stats, current_index, timers,
                   last_get, last_mark>>

\* ------------------------------------ smart_router.py: the classification
\* A message is the listed words it holds, its other characters (spaces
\* included) and its question marks.  The words stand for the lists of
\* _fast_classify_heuristic they are found in; no word holds another one.
None == "None"
Vocabulary == {"merhaba", "nedir", "code", "why", "cell", "model", "explain", "resim"}
WordLength == [w \in Vocabulary |->
    CASE w = "merhaba" -> 7 [] w = "nedir" -> 5 [] w = "code" -> 4 [] w = "why" -> 3
      [] w = "cell" -> 4 [] w = "model" -> 5 [] w = "explain" -> 7 [] w = "resim" -> 5]
Paddings == {0, 12, 20, 45, 50, 80, 100, 150, 200}
Messages == [words : SUBSET Vocabulary, padding : Paddings, questions : 0..MaxQuestions]
Modes == {"auto", "fast", "pro"}

\* The entries of the function's lists that the vocabulary holds.
technical_terms == {"code", "why", "cell", "model", "explain"}
complex_patterns == {"code", "explain"}
greetings == {"merhaba"}
deep_question_words == {"why", "explain"}
simple_patterns == {"merhaba", "nedir"}
image_keywords == {"resim"}

RECURSIVE LengthOfWords(_)
LengthOfWords(words) ==
    IF words = {} THEN 0
    ELSE LET w == CHOOSE x \in words : TRUE
         IN  WordLength[w] + LengthOfWords(words \ {w})

\* `message_length = len(message)`
message_length(message) ==
    LengthOfWords(message.words) + message.padding + message.questions

\* `sum(1 for term in technical_terms if term in message_lower)`
technical_term_count(message) == Cardinality(message.words \cap technical_terms)

HasComplexPattern_never(message) == FALSE
\* `if pattern in message_lower` for some pattern of complex_patterns
HasComplexPattern(message) == message.words \cap complex_patterns # {}

GreetingException_never(message) == FALSE
\* The test that makes the loop over complex_patterns `continue`.
GreetingException(message) ==
    message_length(message) < GREETING_LENGTH /\ message.words \cap greetings # {}

\* Rule 5: a medium-length message with a how/why word and a question mark.
DeepQuestion(message) ==
    /\ message_length(message) > MEDIUM_LENGTH
    /\ message_length(message) <= LONG_LENGTH
    /\ message.words \cap deep_question_words # {}
    /\ message.questions >= 1

SimpleRule_greetings_only(message) ==
    /\ message_length(message) < SHORT_LENGTH
    /\ message.words \cap greetings # {}
    /\ ~HasComplexPattern(message)
\* The SIMPLE rule: a short message with a simple pattern and no complex one.
SimpleRule(message) ==
    /\ message_length(message) < SHORT_LENGTH
    /\ message.words \cap simple_patterns # {}
    /\ ~HasComplexPattern(message)

DefaultsToComplex_over_long(length) == length > LONG_LENGTH
\* `if message_length > 150`, after every rule
DefaultsToComplex(length) == length > DEFAULT_COMPLEX_LENGTH

fast_classify_heuristic_sticky(message) ==
    IF last_heuristic.made /\ last_heuristic.result # None THEN last_heuristic.result
    ELSE IF message_length(message) > DEFAULT_COMPLEX_LENGTH THEN "COMPLEX"
    ELSE IF SimpleRule(message) THEN "SIMPLE"
    ELSE None
\* _fast_classify_heuristic(message): "SIMPLE", "COMPLEX" or None.
fast_classify_heuristic(message) ==
    IF message_length(message) > LONG_LENGTH THEN "COMPLEX"
    ELSE IF message.questions >= 2 /\ message_length(message) > MULTI_QUESTION_LENGTH
         THEN "COMPLEX"
    ELSE IF technical_term_count(message) >= TECHNICAL_TERMS THEN "COMPLEX"
    ELSE IF HasComplexPattern(message) /\ ~GreetingException(message) THEN "COMPLEX"
    ELSE IF DeepQuestion(message) THEN "COMPLEX"
    ELSE IF SimpleRule(message) THEN "SIMPLE"
    ELSE IF DefaultsToComplex(message_length(message)) THEN "COMPLEX"
    ELSE None

\* The classification model's answers: none, the bare labels in either case,
\* answers that hold one label or both, and one that holds neither.
RawAnswers == {"", "SIMPLE", "complex", "Complex.", "SIMPLE, not COMPLEX", "maybe"}

\* `text = text.strip().upper()` and the labels found in it.
LabelsIn(raw_response) ==
    CASE raw_response \in {"SIMPLE"} -> {"SIMPLE"}
      [] raw_response \in {"complex", "Complex."} -> {"COMPLEX"}
      [] raw_response = "SIMPLE, not COMPLEX" -> {"SIMPLE", "COMPLEX"}
      [] OTHER -> {}

\* _parse_classification(raw_response)
parse_classification(raw_response) ==
    IF raw_response = "" THEN None
    ELSE IF "COMPLEX" \in LabelsIn(raw_response) THEN "COMPLEX"
    ELSE IF "SIMPLE" \in LabelsIn(raw_response) THEN "SIMPLE"
    ELSE None

\* How a classification request ends: an answer, or an exception.
ClassifyOutcomes == RawAnswers \cup UpstreamErrors \cup {"Exception"}

is_image_generation_request_never(message) == FALSE
\* is_image_generation_request(message)
is_image_generation_request(message) == message.words \cap image_keywords # {}

NoMessage == [words |-> {}, padding |-> 0, questions |-> 0]
IdleRouting ==
    [pc |-> "idle", message |-> NoMessage, mode |-> "", heuristic_calls |-> 0,
     heuristic_result |-> None, clf_calls |-> 0, key_used |-> NoKey,
     first_failed |-> FALSE, first_error |-> "", retry_failed |-> FALSE,
     classification |-> "", error |-> None, model |-> "", cost |-> 0, route |-> ""]

\* The observers of a _fast_classify_heuristic call.
ObserveHeuristic(message, result) ==
    /\ probe' = IF probe.made THEN probe
                ELSE [made |-> TRUE, message |-> message, result |-> result]
    /\ last_heuristic' =
          [made |-> TRUE, result |-> result, repeat |-> probe.made,
           same |-> IF probe.made THEN message = probe.message ELSE TRUE,
           between |-> probe.made /\ (last_heuristic.between \/ message # probe.message)]

\* The f-strings of get_model_for_message's two auto returns.
RouteTag(classification, error) ==
    IF classification = "COMPLEX"
    THEN (IF error # None THEN "auto:complex:error" ELSE "auto:complex")
    ELSE (IF error # None THEN "auto:simple:error" ELSE "auto:simple")

AutoModel_always_simple(classification) == "simple"
\* `if classification == "COMPLEX"` of get_model_for_message
AutoModel(classification) == IF classification = "COMPLEX" THEN "complex" ELSE "simple"

ModelCost(model) == IF model = "complex" THEN complex_model_cost ELSE simple_model_cost

\* classify_message returns (classification, error) and get_model_for_message
\* returns the auto route made of it.
Classified(rec, classification, error) ==
    [rec EXCEPT !.pc = "returned", !.classification = classification, !.error = error,
                !.model = AutoModel(classification),
                !.cost = ModelCost(AutoModel(classification)),
                !.route = RouteTag(classification, error)]

ParsedOrDefault_raw(raw_response) == <<"OTHER", None>>
\* The two returns after _parse_classification.
ParsedOrDefault(raw_response) ==
    IF parse_classification(raw_response) = None
    THEN <<"SIMPLE", "invalid_classification">>
    ELSE <<parse_classification(raw_response), None>>

\* get_model_for_message(message, mode), up to its return or to the first
\* classification request of classify_message.
GetModelForMessage(message, mode) ==
    /\ routing.pc = "idle"
    /\ LET rec == [routing EXCEPT !.message = message, !.mode = mode]
           result == fast_classify_heuristic(message)
       IN  IF is_image_generation_request(message)
           THEN /\ routing' = [rec EXCEPT !.pc = "returned", !.model = "image",
                                          !.cost = image_cost, !.route = "image"]
                /\ UNCHANGED <<probe, last_heuristic>>
           ELSE IF mode = "fast"
           THEN /\ routing' = [rec EXCEPT !.pc = "returned", !.model = "simple",
                                          !.cost = simple_model_cost, !.route = "fast"]
                /\ UNCHANGED <<probe, last_heuristic>>
           ELSE IF mode = "pro"
           THEN /\ routing' = [rec EXCEPT !.pc = "returned", !.model = "complex",
                                          !.cost = complex_model_cost, !.route = "pro"]
                /\ UNCHANGED <<probe, last_heuristic>>
           ELSE /\ ObserveHeuristic(message, result)
                /\ routing' =
                      IF result # None
                      THEN Classified([rec EXCEPT !.heuristic_calls = @ + 1,
                                                  !.heuristic_result = result],
                                      result, None)
                      ELSE [rec EXCEPT !.heuristic_calls = @ + 1, !.pc = "clf_first"]
    /\ UNCHANGED <<now, user_request_counts, allowed_log, last_call, user_active_requests,
                   user_request_semaphores, credit_balance, turn, webhook, budget, pool_vars>>

\* A call of _fast_classify_heuristic on its own.
HeuristicCall(message) ==
    /\ ObserveHeuristic(message, fast_classify_heuristic(message))
    /\ UNCHANGED <<now, user_request_counts, allowed_log, last_call, user_active_requests,
                   user_request_semaphores, credit_balance, turn, webhook, budget, pool_vars,
                   routing>>

\* classify_message's first request, with _primary_client, and how it ends.
ClassifyFirstCall(o) ==
    /\ routing.pc = "clf_first"
    /\ LET rec == [routing EXCEPT !.clf_calls = @ + 1]
       IN  routing' =
             IF o \in RawAnswers
             THEN Classified(rec, ParsedOrDefault(o)[1], ParsedOrDefault(o)[2])
             ELSE IF IsAPIError(o)
             THEN [rec EXCEPT !.pc = "clf_rotate", !.first_failed = TRUE, !.first_error = o]
             ELSE Classified([rec EXCEPT !.first_failed = TRUE, !.first_error = o],
                             "SIMPLE", "classification_error")
    /\ UNCHANGED <<now, user_request_counts, allowed_log, last_call, user_active_requests,
                   user_request_semaphores, credit_balance, turn, webhook, budget, pool_vars,
                   probe, last_heuristic>>

\* The handler of an APIError: get_openai_client_with_rotation, and the second
\* request is sent with the key it returned.
ClassifyRotate ==
    /\ routing.pc = "clf_rotate"
    /\ get_key
    /\ routing' = [routing EXCEPT !.clf_calls = @ + 1, !.pc = "clf_retry",
                                  !.key_used = PickedKey(key_stats, current_index)]
    /\ UNCHANGED <<now, user_request_counts, allowed_log, last_call, user_active_requests,
                   user_request_semaphores, credit_balance, turn, webhook, budget,
                   timers, completion, last_mark, probe, last_heuristic>>

\* The second request ends: an answer is parsed; any exception is reported
\* with handle_openai_error(retry_error, key_used) and the default returned.
ClassifyRetryReturns(o) ==
    /\ routing.pc = "clf_retry"
    /\ IF o \in RawAnswers
       THEN /\ routing' = Classified(routing, ParsedOrDefault(o)[1], ParsedOrDefault(o)[2])
            /\ UNCHANGED <<key_stats, timers, last_mark>>
       ELSE /\ mark_key_error(routing.key_used, MarkedAs(o))
            /\ routing' = Classified([routing EXCEPT !.retry_failed = TRUE],
                                     "SIMPLE", "classification_error")
    /\ UNCHANGED <<now, user_request_counts, allowed_log, last_call, user_active_requests,
                   user_request_semaphores, credit_balance, turn, webhook, budget,
                   current_index, completion, last_get, probe, last_heuristic>>

\* ----------------------------------------------------------- specifications
NoCall == [made |-> FALSE, in_window |-> 0, allowed |-> FALSE]
NoGet == [made |-> FALSE, key |-> NoKey, active_before |-> {}, active_after |-> {}]
NoMark == [made |-> FALSE, key |-> NoKey, error |-> "", seq |-> 0, active_at_return |-> TRUE]
IdleCompletion ==
    [pc |-> "idle", attempt |-> 0, requests |-> 0, fallback_requests |-> 0,
     key_used |-> NoKey, failed_keys |-> <<>>, reported_keys |-> <<>>]
NoProbe == [made |-> FALSE, message |-> NoMessage, result |-> None]
NoHeuristic ==
    [made |-> FALSE, result |-> None, repeat |-> FALSE, same |-> FALSE, between |-> FALSE]
NoWebhook == [pc |-> "idle", user |-> "none", current_balance |-> 0, calls |-> 0]

\* A window that is empty, or one that holds all but one of the allowed stamps.
AlmostFull == [i \in 1..(MAX_REQUESTS_PER_MINUTE - 1) |-> 0]
InitWindows == { <<>>, AlmostFull }
\* u1 can pay for one complex turn and one simple turn, u2 for simple turns only.
RichBalance == 21
PoorBalance == 5
InitBalance == [u \in Users |-> IF u = "u1" THEN RichBalance ELSE PoorBalance]

Fresh ==
    /\ now = 0
    /\ user_active_requests = [u \in Users |-> 0]
    /\ user_request_semaphores = [u \in Users |-> SEMAPHORE_PERMITS]
    /\ turn = [t \in AllTurns |-> IdleTurn]
    /\ webhook = NoWebhook
    /\ key_stats = [key \in Keys |-> NewKeyStats]
    /\ current_index = 0
    /\ timers = {}
    /\ completion = IdleCompletion
    /\ last_get = NoGet
    /\ last_mark = NoMark
    /\ routing = IdleRouting
    /\ probe = NoProbe
    /\ last_heuristic = NoHeuristic

InitRate ==
    /\ Fresh
    /\ user_request_counts = [u \in Users |-> <<>>]
    /\ allowed_log = [u \in Users |-> <<>>]
    /\ last_call = [u \in Users |-> NoCall]
    /\ credit_balance = [u \in Users |-> 0]
    /\ budget = [deltas |-> 0, faults |-> 0]

NextRate ==
    \/ \E u \in Users : RateCall(u)
    \/ Tick

SpecRate == InitRate /\ [][NextRate]_vars

Init ==
    /\ Fresh
    /\ user_request_counts = [u \in Users |-> <<>>]
    /\ allowed_log = [u \in Users |-> <<>>]
    /\ last_call = [u \in Users |-> NoCall]
    /\ credit_balance = InitBalance
    /\ budget = [deltas |-> MaxDeltas, faults |-> MaxFaults]

Next ==
    \/ \E t \in Turns, u \in Users : ChatRateCheck(t, u)
    \/ \E t \in Turns : ChatAcquire(t)
    \/ \E t \in Turns : GatherCredits(t)
    \/ \E t \in Turns : GatherFail(t)
    \/ \E t \in Turns, r \in Routes : ChatRouted(t, r)
    \/ \E t \in Turns, o \in CreateOutcomes : CreateCompletion(t, o)
    \/ \E t \in Turns, d \in Deltas : StreamDelta(t, d)
    \/ \E t \in Turns : EmitChunk(t)
    \/ \E t \in Turns : StreamEnd(t)
    \/ \E t \in Turns, exc \in StreamErrors : StreamError(t, exc)
    \/ \E t \in Turns, ok \in BOOLEAN : ImageGenerate(t, ok)
    \/ \E t \in Turns : Cancel(t)
    \/ \E t \in Turns : DeductRead(t)
    \/ \E t \in Turns, ok \in BOOLEAN, audit \in AuditOutcomes : DeductWrite(t, ok, audit)
    \/ \E u \in Users : AddCreditsRead(u)
    \/ AddCreditsWrite

Spec == Init /\ [][Next]_vars

\* One user's burst: the window is empty or one short of full, every request is
\* routed to the simple model without a classification call, and the upstream
\* provider has not answered any completion request yet.
BurstUser == "u1"
BurstRoute == [model |-> "simple", cost |-> simple_model_cost, clf |-> 0]

InitBurst ==
    /\ Fresh
    /\ user_request_counts \in [Users -> InitWindows]
    /\ user_request_counts["u2"] = <<>>
    /\ allowed_log = user_request_counts
    /\ last_call = [u \in Users |->
          IF user_request_counts[u] = <<>> THEN NoCall
          ELSE [made |-> TRUE, in_window |-> Len(user_request_counts[u]) - 1, allowed |-> TRUE]]
    /\ credit_balance = InitBalance
    /\ budget = [deltas |-> 0, faults |-> 0]

NextBurst ==
    \/ \E t \in BurstTurns : ChatRateCheck(t, BurstUser)
    \/ \E t \in BurstTurns : ChatAcquire(t)
    \/ \E t \in BurstTurns : GatherCredits(t)
    \/ \E t \in BurstTurns : ChatRouted(t, BurstRoute)

SpecBurst == InitBurst /\ [][NextBurst]_vars

\* The credential pool under callers that take keys and report errors, with
\* the clock and the cooldown tasks.  A cooldown task that is due does run.
InitPool == InitRate

NextPool ==
    \/ PoolGetKey
    \/ \E key \in Keys, error \in ErrorKinds : PoolMarkKeyError(key, error)
    \/ ReenableDue
    \/ Tick

SpecPool == InitPool /\ [][NextPool]_vars /\ WF_vars(ReenableDue)

\* One generate_response_stream call obtaining its stream, beside other
\* callers taking keys from the pool and the cooldown tasks.
InitRetry == InitRate

NextRetry ==
    \/ StartCompletion
    \/ \E o \in RequestOutcomes : PrimaryRequest(o)
    \/ RotatedRequest
    \/ RotatedOk
    \/ \E o \in RequestOutcomes : RotatedError(o)
    \/ \E ok \in BOOLEAN : FallbackRequest(ok)
    \/ PoolGetKey
    \/ ReenableDue

SpecRetry == InitRetry /\ [][NextRetry]_vars

\* One user's requests over two minutes: the window is full at the start (the
\* user's thirty requests of this second are over), every request is routed
\* to the simple model, and the upstream provider has not answered yet.
DriftUser == "u2"
FullWindow == [i \in 1..MAX_REQUESTS_PER_MINUTE |-> 0]

\* The state after the requests that filled a window.
InitAfter(window) ==
    /\ Fresh
    /\ user_request_counts = [u \in Users |-> IF u = DriftUser THEN window ELSE <<>>]
    /\ allowed_log = user_request_counts
    /\ last_call = [u \in Users |->
          IF user_request_counts[u] = <<>> THEN NoCall
          ELSE [made |-> TRUE, in_window |-> Len(user_request_counts[u]) - 1, allowed |-> TRUE]]
    /\ credit_balance = InitBalance
    /\ budget = [deltas |-> 0, faults |-> 0]

InitDrift == InitAfter(FullWindow)

NextDrift ==
    \/ \E t \in DriftTurns : ChatRateCheck(t, DriftUser)
    \/ \E t \in DriftTurns : ChatAcquire(t)
    \/ \E t \in DriftTurns : GatherCredits(t)
    \/ \E t \in DriftTurns : ChatRouted(t, BurstRoute)
    \/ Tick

SpecDrift == InitDrift /\ [][NextDrift]_vars

\* Seven requests of one user in one second: the window has room for six of
\* them, the balance pays for the simple model only, a request is routed to
\* the simple or to the complex model, and the upstream provider accepts the
\* completion requests it is sent.
DeniedRoutes == {r \in Routes : r.model \in {"simple", "complex"} /\ r.clf = 0}
BusyWindow == [i \in 1..(MAX_REQUESTS_PER_MINUTE - MaxDrift + 1) |-> 0]

InitDenied == InitAfter(BusyWindow)

NextDenied ==
    \/ \E t \in DriftTurns : ChatRateCheck(t, DriftUser)
    \/ \E t \in DriftTurns : ChatAcquire(t)
    \/ \E t \in DriftTurns : GatherCredits(t)
    \/ \E t \in DriftTurns, r \in DeniedRoutes : ChatRouted(t, r)
    \/ \E t \in DriftTurns : CreateCompletion(t, [first |-> "ok", fallback |-> "none"])

SpecDenied == InitDenied /\ [][NextDenied]_vars

\* One turn of a user who can pay, routed to the simple model, whose upstream
\* stream delivers up to MaxStreamDeltas deltas, short ones and a long one,
\* and ends.
LongDelta ==
    [i \in 1..LongDeltaLen |-> IF i % 3 = 1 THEN "x" ELSE IF i % 3 = 2 THEN "y" ELSE "z"]
StreamDeltas == Deltas \cup {LongDelta}

InitStream ==
    /\ Fresh
    /\ user_request_counts = [u \in Users |-> <<>>]
    /\ allowed_log = [u \in Users |-> <<>>]
    /\ last_call = [u \in Users |-> NoCall]
    /\ credit_balance = InitBalance
    /\ budget = [deltas |-> MaxStreamDeltas, faults |-> 0]

NextStream ==
    \/ ChatRateCheck(1, BurstUser)
    \/ ChatAcquire(1)
    \/ GatherCredits(1)
    \/ ChatRouted(1, BurstRoute)
    \/ CreateCompletion(1, [first |-> "ok", fallback |-> "none"])
    \/ \E d \in StreamDeltas : StreamDelta(1, d)
    \/ EmitChunk(1)
    \/ StreamEnd(1)

SpecStream == InitStream /\ [][NextStream]_vars

\* One get_model_for_message call, for every message and mode, with the
\* classification requests it makes.
InitRoute == InitRate

NextRoute ==
    \/ routing.pc = "idle" /\ \E message \in Messages, mode \in Modes :
          GetModelForMessage(message, mode)
    \/ \E o \in ClassifyOutcomes : ClassifyFirstCall(o)
    \/ ClassifyRotate
    \/ \E o \in ClassifyOutcomes : ClassifyRetryReturns(o)

SpecRoute == InitRoute /\ [][NextRoute]_vars

\* Calls of _fast_classify_heuristic in any number and order, and one
\* classify_message of the first message they were made with.  The first call
\* is made with any message; the later ones with that message again or with
\* one of four others, which the heuristic answers SIMPLE, COMPLEX and None.
Interleaved ==
    { [words |-> {"merhaba"}, padding |-> 0, questions |-> 0],
      [words |-> {"code"}, padding |-> 45, questions |-> 0],
      [words |-> {}, padding |-> 200, questions |-> 2],
      [words |-> {}, padding |-> 50, questions |-> 1] }

InitHeuristic == InitRate

NextHeuristic ==
    \/ \E message \in (IF probe.made THEN Interleaved \cup {probe.message} ELSE Messages) :
          HeuristicCall(message)
    \/ probe.made /\ GetModelForMessage(probe.message, "auto")
    \/ \E o \in ClassifyOutcomes : ClassifyFirstCall(o)
    \/ ClassifyRotate
    \/ \E o \in ClassifyOutcomes : ClassifyRetryReturns(o)

SpecHeuristic == InitHeuristic /\ [][NextHeuristic]_vars

\* ------------------------------------------------------------------ claims
Terminal == {"rejected", "done", "failed", "cancelled"}

\* A turn is in progress from its successful acquire_request_slot until its
\* handler has rejected it or its response stream has ended.
InProgress(t) == turn[t].acquired /\ turn[t].pc \notin Terminal

\* The content payloads of a stream's events, joined in emission order.
RECURSIVE ContentOf(_)
ContentOf(events) ==
    IF events = <<>> THEN <<>>
    ELSE (IF Head(events).type = "content" THEN Head(events).content ELSE <<>>)
         \o ContentOf(Tail(events))

HasEvent(t, type) == \E i \in 1..Len(turn[t].events) : turn[t].events[i].type = type

\* C1: of the calls that check_rate_limit allowed to a user, never more than 30
\* lie within the last 60 seconds, and a call made while exactly 30 of them do
\* is denied.
C1_WindowNeverExceedsLimit ==
    \A u \in Users :
        /\ Len(allowed_log[u]) <= MAX_REQUESTS_PER_MINUTE
        /\ (last_call[u].made /\ last_call[u].in_window = MAX_REQUESTS_PER_MINUTE)
              => ~last_call[u].allowed

\* A call was denied while 30 allowed calls lay in the window, some of them
\* from an earlier instant than the denied call.
C1_Witness ==
    \E u \in Users :
        /\ last_call[u].made /\ ~last_call[u].allowed
        /\ last_call[u].in_window = MAX_REQUESTS_PER_MINUTE
        /\ \E i \in 1..Len(allowed_log[u]) : allowed_log[u][i] < now

\* C2: at any time each user has at most 5 chat turns in progress (admitted,
\* response stream not yet ended).
C2_AtMostFiveInProgress ==
    \A u \in Users :
        Cardinality({t \in AllTurns : turn[t].user = u /\ InProgress(t)})
            <= MAX_CONCURRENT_REQUESTS

\* C3: a finished turn has run release_request_slot exactly once if its
\* acquire_request_slot succeeded and not at all otherwise.
C3_ReleaseOncePerAcquire ==
    \A t \in AllTurns :
        turn[t].pc \in Terminal => turn[t].releases = (IF turn[t].acquired THEN 1 ELSE 0)

\* C4: no upstream generation call is made and no content event is emitted by
\* a turn whose slot has already been released.
C4_NoStreamAfterRelease ==
    \A t \in AllTurns : ~turn[t].late

\* C5: the stored balance is never negative, and deduct_credits goes on to
\* write balance - amount only from a balance that is at least amount.
C5_BalanceNeverNegative ==
    /\ \A u \in Users : credit_balance[u] >= 0
    /\ \A t \in AllTurns :
          turn[t].pc = "deduct_write" => turn[t].current_balance >= turn[t].cost

\* Two turns of one user were both admitted; one paid, and the other's
\* deduct_credits found the balance too low and refused, with no fault around.
C5_Witness ==
    \E t1, t2 \in AllTurns :
        /\ t1 # t2 /\ turn[t1].user = turn[t2].user
        /\ turn[t1].deducted /\ turn[t2].deduct_failed
        /\ credit_balance[turn[t2].user] < turn[t2].cost
        /\ budget.faults = MaxFaults

\* C6 as claimed: a routed turn whose balance read is below the routed cost is
\* rejected with 402 and has made no deduct_credits call and no upstream call
\* at all (classification calls included).
C6_NoUpstreamCallWhenInsufficient ==
    \A t \in AllTurns :
        (turn[t].model # "" /\ turn[t].credits < turn[t].cost) =>
            /\ turn[t].pc = "rejected" /\ turn[t].status = 402
            /\ turn[t].deduct_calls = 0
            /\ turn[t].gen_calls = 0
            /\ turn[t].clf_calls = 0

\* C6 amended: such a turn is rejected with 402 and has made no deduct_credits
\* call and no upstream generation call (completion or image); the
\* classification call of its routing may have been made.
C6_NoGenerationWhenInsufficient ==
    \A t \in AllTurns :
        (turn[t].model # "" /\ turn[t].credits < turn[t].cost) =>
            /\ turn[t].pc = "rejected" /\ turn[t].status = 402
            /\ turn[t].deduct_calls = 0
            /\ turn[t].gen_calls = 0

\* A turn was rejected for insufficient credits after its routing had made a
\* classification call.
C6_Witness ==
    \E t \in AllTurns :
        /\ turn[t].status = 402 /\ turn[t].credits < turn[t].cost
        /\ turn[t].clf_calls > 0

\* C7: deduct_credits is called in a turn only if its upstream generation
\* completed successfully.
C7_DeductOnlyAfterSuccessfulGeneration ==
    \A t \in AllTurns :
        turn[t].deduct_calls > 0 => (turn[t].gen_ok /\ ~turn[t].upstream_failed)

\* C8: once the client has disconnected before the generation finished, the
\* turn emits nothing more and never calls deduct_credits.
C8_CancelledTurnStops ==
    \A t \in AllTurns :
        turn[t].cancel_early =>
            /\ Len(turn[t].events) = turn[t].cancel_at
            /\ turn[t].deduct_calls = 0
            /\ ~turn[t].deducted

\* A client disconnected in mid-stream, after a content event and with text
\* still buffered.
C8_Witness ==
    \E t \in AllTurns :
        /\ turn[t].pc = "cancelled" /\ turn[t].cancel_early
        /\ turn[t].cancel_at > 0
        /\ turn[t].buffer # <<>>

\* C9 as claimed: when a chat turn has ended with the done marker, the text
\* given to save_message is the concatenation, in emission order, of the
\* payloads of its content events.
C9_SavedEqualsEmitted ==
    \A t \in AllTurns :
        turn[t].pc = "done" =>
            /\ turn[t].saved_set
            /\ turn[t].saved = ContentOf(turn[t].events)

\* C9 amended: the same, for the turns routed to a text model (an image turn
\* saves the image's markdown and sends no content event).
C9_TextSavedEqualsEmitted ==
    \A t \in AllTurns :
        (turn[t].pc = "done" /\ turn[t].model # "image") =>
            /\ turn[t].saved_set
            /\ turn[t].saved = ContentOf(turn[t].events)

\* A turn ended with the done marker after at least two content events, the
\* last of them the flushed remainder.
C9_Witness ==
    \E t \in AllTurns :
        /\ turn[t].pc = "done" /\ turn[t].saved_set
        /\ turn[t].model # "image"
        /\ Len(turn[t].events) >= 3
        /\ Len(turn[t].saved) = 3
        /\ ~turn[t].raw

\* C10: a text turn whose upstream generation or deduct_credits failed ends
\* with an error event as its last event and without a done marker.
C10_FailureEndsWithErrorEvent ==
    \A t \in AllTurns :
        (/\ turn[t].model # "image"
         /\ turn[t].pc \in {"done", "failed"}
         /\ (turn[t].upstream_failed \/ turn[t].deduct_failed)) =>
            /\ turn[t].events # <<>>
            /\ turn[t].events[Len(turn[t].events)].type = "error"
            /\ ~HasEvent(t, "done")

\* C13: get_key never returns an inactive key while another key is active; so
\* with one of two keys rate-limited, every call returns the other key until
\* the first is reactivated.
C13_InactiveKeyNotReturned ==
    (last_get.made /\ last_get.active_before # {}) => last_get.key \in last_get.active_before

\* A get_key call was served while one key was quarantined by a rate-limit
\* report and another was active.
C13_Witness ==
    /\ last_get.made /\ last_get.active_before # {} /\ last_get.active_before # Keys
    /\ last_mark.made /\ IsRateLimitClass(last_mark.error)
    /\ last_mark.key \notin last_get.active_before

\* C14: get_key of the (non-empty) pool always returns one of its keys, and a
\* call made while every key is inactive sets all keys active again.
C14_GetKeyAlwaysReturnsKey ==
    last_get.made =>
        /\ last_get.key \in Keys
        /\ last_get.active_before = {} => last_get.active_after = Keys

\* A get_key call was made while every key was inactive.
C14_Witness ==
    last_get.made /\ last_get.active_before = {} /\ last_get.key \in Keys

\* C15: a key deactivated by a rate-limit report becomes active again with no
\* further call into the pool needed, and mark_key_error has returned to its
\* caller while the key is still inactive.
C15_DeactivatedKeyComesBack ==
    /\ \A key \in Keys : (~key_stats[key].is_active) ~> key_stats[key].is_active
    /\ [](last_mark.made /\ last_mark.error \in {"RateLimitError", "APIError429"}
              => ~last_mark.active_at_return)

\* A rate-limited key is active again, every cooldown task has run, and the
\* last get_key call did not have to reset the pool.
C15_Witness ==
    \E key \in Keys :
        /\ key_stats[key].rate_limit_count > 0 /\ key_stats[key].is_active
        /\ timers = {} /\ now >= COOLDOWN
        /\ last_get.active_before # {}

\* C16: a mark_key_error call with an error that is neither a RateLimitError
\* nor an APIError carrying 429 adds one to that key's error_count and changes
\* nothing else in the pool: no is_active, no rate_limit_count, no new task.
C16_OtherErrorsOnlyCount ==
    [][(last_mark'.seq # last_mark.seq
          /\ last_mark'.error \notin {"RateLimitError", "APIError429"})
       => /\ key_stats' = [key_stats EXCEPT ![last_mark'.key].error_count = @ + 1]
          /\ timers' = timers]_vars

\* A timeout was reported for a key, which is still active and has no
\* rate-limit count.
C16_Witness ==
    /\ last_mark.made /\ last_mark.error = "APITimeoutError"
    /\ key_stats[last_mark.key].is_active
    /\ key_stats[last_mark.key].error_count = 1
    /\ key_stats[last_mark.key].rate_limit_count = 0

\* C11: a turn whose deduct_credits returned failure, text or image, ends
\* with an error event as its last event and without a done marker.
C11_DeductFailureEndsWithError ==
    \A t \in AllTurns :
        (turn[t].deduct_failed /\ turn[t].pc \in Terminal) =>
            /\ turn[t].events # <<>>
            /\ turn[t].events[Len(turn[t].events)].type = "error"
            /\ ~HasEvent(t, "done")

\* C12: when the audit insert fails after the balance write, the step leaves
\* balance - amount stored and deduct_credits returns success to the turn.
C12_AuditFailureKeepsDebit ==
    [][\A t \in AllTurns :
          (turn[t].pc = "deduct_write" /\ turn'[t].audit_failed) =>
              /\ credit_balance'[turn[t].user] = turn[t].current_balance - turn[t].cost
              /\ turn'[t].deducted /\ ~turn'[t].deduct_failed]_vars

\* A turn's audit insert failed; the turn was charged its cost and completed.
C12_Witness ==
    \E t \in AllTurns :
        /\ turn[t].audit_failed /\ turn[t].deducted /\ turn[t].pc = "done"
        /\ credit_balance[turn[t].user] = InitBalance[turn[t].user] - turn[t].cost

\* C17: one generate_response_stream call sends at most 3 completion requests
\* for the configured model, whatever transient errors occur.
C17_AtMostThreeRequests ==
    completion.requests <= MAX_ATTEMPTS

\* C18: when the provider rejects the configured model, the fallback request
\* is made exactly once and right after the rejected request, with no retry
\* spent on the rejected model; after a failed fallback the call has failed.
C18_OneFallbackWithoutRetries ==
    /\ completion.fallback_requests <= 1
    /\ (completion.pc = "fallback" \/ completion.fallback_requests = 1)
          => completion.requests = 1
    /\ completion.fallback_requests = 1 => completion.pc \in {"ok", "failed"}

\* C19: the request that follows an attempt's first error is made with a key
\* other than the key of the request that just failed (the primary key).
C19_RotatedKeyDiffers ==
    completion.pc = "rotated" => completion.key_used # PrimaryKey

\* C20: once a failed request's error has been handled, the key of every
\* request that failed with a transient error has been reported to the pool.
C20_FailedKeyReported ==
    completion.pc \in {"primary", "ok", "failed", "fallback"}
        => completion.reported_keys = completion.failed_keys

\* One classify_message call of the auto branch has returned.
ClassifyReturned ==
    routing.pc = "returned" /\ routing.mode = "auto" /\ routing.heuristic_calls > 0

C22_LongMessageIsComplex ==
    message_length(routing.message) > 150 =>
        /\ routing.pc \notin {"clf_first", "clf_rotate", "clf_retry"}
        /\ ClassifyReturned =>
              /\ routing.heuristic_result = "COMPLEX"
              /\ routing.classification = "COMPLEX"
              /\ routing.error = None
              /\ routing.clf_calls = 0

\* A message of 151 to 200 characters that holds no listed word.
C22_Witness ==
    /\ ClassifyReturned
    /\ routing.message.words = {}
    /\ message_length(routing.message) > 150
    /\ message_length(routing.message) <= 200
    /\ routing.classification = "COMPLEX"

\* C23: for every message shorter than 50 characters that holds a Simple
\* pattern, no Complex pattern and fewer than 3 technical terms, the heuristic
\* stage returns SIMPLE and no classification request is made.
C23_ShortSimpleIsSimple ==
    /\ message_length(routing.message) < 50
    /\ routing.message.words \cap {"merhaba", "nedir"} # {}
    /\ routing.message.words \cap {"code", "explain"} = {}
    /\ Cardinality(routing.message.words \cap {"code", "why", "cell", "model", "explain"}) < 3
    => /\ routing.pc \notin {"clf_first", "clf_rotate", "clf_retry"}
       /\ ClassifyReturned =>
             /\ routing.heuristic_result = "SIMPLE"
             /\ routing.classification = "SIMPLE"
             /\ routing.clf_calls = 0

\* The message "nedir" with two technical terms beside it.
C23_Witness ==
    /\ ClassifyReturned
    /\ routing.message.words = {"nedir", "why", "cell"}
    /\ routing.classification = "SIMPLE"

C25_ImageIntentShortCircuits ==
    routing.pc # "idle" /\ "resim" \in routing.message.words =>
        /\ routing.pc = "returned"
        /\ routing.model = "image"
        /\ routing.cost = 10
        /\ routing.route = "image"
        /\ routing.heuristic_calls = 0
        /\ routing.clf_calls = 0

\* An image request under mode pro that also holds a Complex pattern.
C25_Witness ==
    /\ routing.pc = "returned"
    /\ routing.mode = "pro"
    /\ routing.message.words = {"resim", "code"}
    /\ routing.model = "image"

\* C26: without image intent, fast returns the cheap backend with its cost
\* and pro the expensive backend with its cost, both without the classifier;
\* auto returns the expensive backend exactly when the classifier returned
\* COMPLEX and the cheap one otherwise, with a tag naming the branch.
C26_ModeSelectsBackend ==
    routing.pc = "returned" /\ "resim" \notin routing.message.words =>
        /\ routing.mode = "fast" =>
              /\ routing.model = "simple" /\ routing.cost = simple_model_cost
              /\ routing.route = "fast"
              /\ routing.heuristic_calls = 0 /\ routing.clf_calls = 0
        /\ routing.mode = "pro" =>
              /\ routing.model = "complex" /\ routing.cost = complex_model_cost
              /\ routing.route = "pro"
              /\ routing.heuristic_calls = 0 /\ routing.clf_calls = 0
        /\ routing.mode = "auto" =>
              IF routing.classification = "COMPLEX"
              THEN /\ routing.model = "complex" /\ routing.cost = complex_model_cost
                   /\ routing.route \in {"auto:complex", "auto:complex:error"}
              ELSE /\ routing.model = "simple" /\ routing.cost = simple_model_cost
                   /\ routing.route \in {"auto:simple", "auto:simple:error"}

\* An auto call that the classification request answered COMPLEX.
C26_Witness ==
    /\ ClassifyReturned
    /\ routing.clf_calls = 1
    /\ routing.classification = "COMPLEX"
    /\ routing.model = "complex"
    /\ routing.route = "auto:complex"

\* C27: acquire_request_slot never suspends: in every reachable state a
\* semaphore with no free permit has an active counter of at least 5, so a
\* request that reaches semaphore.acquire() finds a free permit.
C27_AcquireNeverSuspends ==
    /\ \A u \in Users : user_request_semaphores[u] = 0 => user_active_requests[u] >= 5
    /\ \A t \in AllTurns :
          turn[t].pc = "acquire" /\ ~SlotDenied(turn[t].user) =>
              user_request_semaphores[turn[t].user] > 0

\* Five requests hold the five permits and a sixth is about to ask.
C27_Witness ==
    /\ user_request_semaphores[BurstUser] = 0
    /\ user_active_requests[BurstUser] = 5
    /\ \E t \in BurstTurns : turn[t].pc = "acquire"

\* C28: user_active_requests is never negative, after any sequence of
\* acquires and releases, releases of requests that acquired nothing included.
C28_ActiveNeverNegative ==
    \A u \in Users : user_active_requests[u] >= 0

\* Two requests that acquired nothing have released: the counter stayed at 0
\* while the semaphore went up to 7.
C28_Witness ==
    /\ user_active_requests[BurstUser] = 0
    /\ user_request_semaphores[BurstUser] = SEMAPHORE_PERMITS + 2
    /\ \E t \in BurstTurns : turn[t].code = "RATE_LIMIT_EXCEEDED" /\ ~turn[t].acquired

\* C29: a turn denied by check_rate_limit acquires no slot, reads no balance,
\* is not routed and makes no upstream call; a turn denied by
\* acquire_request_slot reads no balance, is not routed and makes no upstream
\* call; and every admission or insufficient-credits rejection is an error
\* returned before any stream event, from then on.
C29_DeniedTurnDoesNothingMore ==
    \A t \in AllTurns :
        /\ turn[t].code = "RATE_LIMIT_EXCEEDED" =>
              /\ ~turn[t].acquired
              /\ turn[t].balance_reads = 0
              /\ turn[t].model = "" /\ turn[t].clf_calls = 0
              /\ turn[t].gen_calls = 0
        /\ turn[t].code = "CONCURRENT_REQUESTS_EXCEEDED" =>
              /\ turn[t].balance_reads = 0
              /\ turn[t].model = "" /\ turn[t].clf_calls = 0
              /\ turn[t].gen_calls = 0
        /\ turn[t].code \in {"RATE_LIMIT_EXCEEDED", "CONCURRENT_REQUESTS_EXCEEDED",
                             "INSUFFICIENT_CREDITS"} =>
              /\ turn[t].pc = "rejected"
              /\ turn[t].status \in {429, 402}
              /\ turn[t].gen_calls = 0
              /\ turn[t].events = <<>>

\* The three rejections beside a turn whose completion request was sent.
C29_Witness ==
    /\ \E t \in DriftTurns : turn[t].code = "RATE_LIMIT_EXCEEDED"
    /\ \E t \in DriftTurns : turn[t].code = "CONCURRENT_REQUESTS_EXCEEDED"
    /\ \E t \in DriftTurns : turn[t].code = "INSUFFICIENT_CREDITS" /\ turn[t].status = 402
    /\ \E t \in DriftTurns : turn[t].gen_calls > 0

\* C30: in every reachable state user_active_requests is at most 5, after any
\* sequence of admitted, denied and finished turns, the releases of turns that
\* acquired nothing included.
C30_ActiveAtMostFive ==
    \A u \in Users : user_active_requests[u] <= MAX_CONCURRENT_REQUESTS

\* C31: a check_rate_limit call that denies records no timestamp: the user's
\* list holds the allowed calls younger than 60 seconds and nothing else, so
\* denied calls do not prolong the lockout, and a call made while fewer than
\* 30 allowed calls are younger than 60 seconds is allowed.
C31_DeniedCallRecordsNothing ==
    \A u \in Users :
        /\ CleanOld(user_request_counts[u], now) = allowed_log[u]
        /\ Len(user_request_counts[u]) <= MAX_REQUESTS_PER_MINUTE
        /\ last_call[u].made /\ last_call[u].in_window < MAX_REQUESTS_PER_MINUTE
              => last_call[u].allowed

\* Requests were denied at 0 and at 30 seconds, and the request made when the
\* thirty stamps had left the window was allowed.
C31_Witness ==
    /\ turn[1].code = "RATE_LIMIT_EXCEEDED"
    /\ turn[2].code = "RATE_LIMIT_EXCEEDED"
    /\ turn[3].pc = "acquire"
    /\ last_call[DriftUser].allowed /\ last_call[DriftUser].in_window = 0
    /\ user_request_counts[DriftUser] = <<RATE_LIMIT_WINDOW>>

\* C32: a key deactivated by a rate-limit report at time t is not reactivated
\* by a cooldown timer before t + 60, also when the key was rate-limited
\* before; only get_key's all-inactive reset may reactivate it sooner.  A
\* report at t leaves a task due at t + 60: a step other than get_key that
\* makes a key active leaves no task of that key due later than now.
C32_NoReactivationBeforeCooldown ==
    [][\A key \in Keys :
          (~key_stats[key].is_active /\ key_stats'[key].is_active
              /\ current_index' = current_index)
          => \A task \in timers' : task.key = key => task.due <= now']_vars

\* The key after `key` in pool order among the keys of the set, cyclically.
NextInPoolOrder(key, active) ==
    IF \E k \in active : k > key
    THEN CHOOSE k \in active : k > key /\ \A j \in active : j > key => k <= j
    ELSE CHOOSE k \in active : \A j \in active : k <= j

\* C33: while the set of active keys does not change and has k members, k
\* consecutive get_key calls return k distinct keys, each active key once, in
\* pool order, and each call adds one to the returned key's usage_count: a
\* get_key call returns the active key that follows, in pool order, the key
\* the call before it returned from the same set.
C33_RoundRobinOverActiveKeys ==
    [][current_index' # current_index =>
          /\ key_stats'[last_get'.key].usage_count = key_stats[last_get'.key].usage_count + 1
          /\ \A k \in Keys \ {last_get'.key} :
                key_stats'[k].usage_count = key_stats[k].usage_count
          /\ (last_get.made /\ last_get'.active_before # {}
                /\ last_get.active_after = last_get'.active_before)
             => last_get'.key = NextInPoolOrder(last_get.key, last_get'.active_before)]_vars

\* As many consecutive calls as the pool has keys, with every key active:
\* each key was returned once, the last key of the pool last.
C33_Witness ==
    /\ current_index = MaxKeys
    /\ ~last_mark.made
    /\ last_get.key = keys[MaxKeys]
    /\ \A k \in Keys : key_stats[k].usage_count = 1 /\ key_stats[k].is_active

\* The characters of the content events before the i-th event.
CharsBefore(events, i) == Len(ContentOf(SubSeq(events, 1, i - 1)))

\* C34: in character streaming every emitted slice other than the final
\* flushed remainder has the size set by the characters emitted before it: 2
\* while fewer than 50 were emitted, 3 from 50 and below 200, 4 from 200 on.
C34_SliceSizeFollowsEmittedCount ==
    \A t \in AllTurns :
        ~turn[t].raw /\ ~turn[t].upstream_failed =>
            \A i \in 1..Len(turn[t].events) :
                (i < Len(turn[t].events) \/ turn[t].pc \in {"streaming", "emitting"}) =>
                    Len(turn[t].events[i].content) =
                        IF CharsBefore(turn[t].events, i) < 50 THEN 2
                        ELSE IF CharsBefore(turn[t].events, i) < 200 THEN 3
                        ELSE 4

\* C35: for every sequence of deltas of a generation that completes without
\* error, the chunks emitted in character streaming, joined in order, are the
\* deltas joined in arrival order, and a remainder shorter than a slice is
\* emitted as the last chunk: while the stream runs the emitted chunks and
\* the buffer make up the deltas received, and at its end nothing is buffered.
C35_ChunksConcatenateToDeltas ==
    \A t \in AllTurns :
        /\ (turn[t].pc \in {"streaming", "emitting"} /\ ~turn[t].raw) =>
              ContentOf(turn[t].events) \o turn[t].buffer = turn[t].received
        /\ (turn[t].gen_ok /\ ~turn[t].raw /\ turn[t].pc = "deduct") =>
              /\ ContentOf(turn[t].events) = turn[t].received
              /\ turn[t].buffer = <<>>

\* The stream ended after a long delta and a short one: the last event is the
\* one-character remainder.
C35_Witness ==
    /\ turn[1].gen_ok /\ turn[1].pc = "deduct"
    /\ Len(turn[1].received) = LongDeltaLen + 4
    /\ Len(turn[1].events) >= 3
    /\ Len(turn[1].events[Len(turn[1].events)].content) = 1

\* C36: classify_message sends a classification request only when the
\* heuristic stage returned Uncertain, and then at most two: the first and,
\* only if the first failed with a transport error, exactly one retry, made
\* with a credential obtained from the pool.
C36_AtMostTwoClassificationRequests ==
    /\ routing.clf_calls <= 2
    /\ (routing.clf_calls > 0 \/ routing.pc \in {"clf_first", "clf_rotate", "clf_retry"}) =>
          /\ routing.mode = "auto"
          /\ routing.heuristic_calls = 1
          /\ routing.heuristic_result = None
    /\ routing.clf_calls = 2 =>
          /\ routing.first_error \in {"RateLimitError", "APITimeoutError", "APIError"}
          /\ routing.key_used \in Keys
          /\ last_get.made /\ last_get.key = routing.key_used
    /\ (routing.pc = "returned" /\ routing.clf_calls = 1 /\ routing.first_failed) =>
          routing.first_error = "Exception"

\* The first request timed out and the retry, with the pool's key, answered.
C36_Witness ==
    /\ routing.pc = "returned"
    /\ routing.clf_calls = 2
    /\ routing.first_error = "APITimeoutError"
    /\ routing.key_used \in Keys
    /\ routing.classification = "COMPLEX" /\ routing.error = None

\* C37: the heuristic stage never returns SIMPLE for a message that holds a
\* Complex pattern, nor for a message of 50 or more characters: for these its
\* result is COMPLEX or Uncertain.
C37_NoSimpleForComplexOrLong ==
    (probe.made /\ (probe.message.words \cap {"code", "explain"} # {}
                     \/ message_length(probe.message) >= 50))
    => probe.result \in {"COMPLEX", None}

\* A greeting in a message of 57 characters: the heuristic is uncertain.
C37_Witness ==
    /\ probe.made
    /\ probe.message = [words |-> {"merhaba"}, padding |-> 50, questions |-> 0]
    /\ probe.result = None

\* C38: for a message shorter than 20 characters that holds a greeting word,
\* a Complex pattern and fewer than 3 technical terms, the greeting exception
\* skips every Complex pattern and the Complex pattern blocks the Simple rule:
\* the heuristic returns Uncertain and the message goes to the model-assisted
\* stage.
C38_ShortGreetingWithComplexIsUncertain ==
    (/\ routing.pc # "idle" /\ routing.mode = "auto"
     /\ "resim" \notin routing.message.words
     /\ message_length(routing.message) < 20
     /\ "merhaba" \in routing.message.words
     /\ routing.message.words \cap {"code", "explain"} # {}
     /\ Cardinality(routing.message.words \cap {"code", "why", "cell", "model", "explain"}) < 3)
    => /\ routing.heuristic_result = None
       /\ routing.pc \in {"clf_first", "clf_rotate", "clf_retry"} \/ routing.clf_calls > 0

\* "merhaba code why": 14 characters, two technical terms, answered by the
\* classification model.
C38_Witness ==
    /\ routing.pc = "returned"
    /\ routing.message = [words |-> {"merhaba", "code", "why"}, padding |-> 0, questions |-> 0]
    /\ routing.heuristic_result = None
    /\ routing.clf_calls = 1
    /\ routing.classification = "COMPLEX"

\* C39: no chat response is delivered unpaid: for every turn and every
\* interleaving of concurrent turns of one user, if all content chunks of the
\* turn's response were sent, deduct_credits succeeded for the turn.  Stated
\* for the runs in which no store call and no upstream call has failed.
C39_NoResponseUnpaid ==
    \A t \in AllTurns :
        (/\ budget.faults = MaxFaults
         /\ turn[t].model \in {"simple", "complex"}
         /\ turn[t].gen_ok /\ turn[t].full_response # <<>>
         /\ turn[t].pc \in Terminal)
        => turn[t].deducted

\* C40: no completion request is sent with a credential that is marked
\* inactive in the pool when the request is made: the key get_key returned
\* for a rotated request is active, and the key of _primary_client is active
\* at each request and fallback request sent with it.
C40_NoRequestWithInactiveKey ==
    [][/\ (completion'.requests > completion.requests /\ completion'.pc = "rotated")
             => key_stats'[completion'.key_used].is_active
       /\ (completion'.requests > completion.requests /\ completion'.pc # "rotated")
             => key_stats[PrimaryKey].is_active
       /\ completion'.fallback_requests > completion.fallback_requests
             => key_stats[PrimaryKey].is_active]_vars

====
